---------------------------- MODULE Spec2Model ----------------------------
(***************************************************************************)
(* Enhanced Recurring Tasks for Notion: the nightly run of index.mjs       *)
(* (processDoneTasks, handleRecurringTasks, createSummary) over a remote   *)
(* task database, with the stages of libs/taskProcessors.mjs and the       *)
(* error cards of libs/helpers.mjs.                                        *)
(*                                                                         *)
(* Strings are sequences of one-character strings, so that the regular     *)
(* expression, toLowerCase, parseInt, parseISO and format are computed     *)
(* character by character as the code computes them.  A calendar date (a   *)
(* JavaScript Date at day precision, local time) is a triple <<y, m, d>>.  *)
(***************************************************************************)
EXTENDS Integers, Sequences, FiniteSets, Bags, TLC

(***************************************************************************)
(* Bounds of the model.                                                    *)
(***************************************************************************)
\* Page ids the remote store can hand out: the initial tasks plus clones.
MaxPages == 3
\* Remote calls that fail, in one behaviour: the failures injected.
MaxFaults == 2

\* JavaScript's undefined / null: an absent property value (a one-element
\* sequence no string of characters equals).
Undefined == <<"undefined">>

(***************************************************************************)
(* Characters and strings.                                                 *)
(***************************************************************************)
DigitChars == <<"0", "1", "2", "3", "4", "5", "6", "7", "8", "9">>
Digit == {DigitChars[i] : i \in 1..10}
LowerCase == <<"a", "b", "c", "d", "e", "f", "g", "h", "i", "j", "k", "l", "m",
               "n", "o", "p", "q", "r", "s", "t", "u", "v", "w", "x", "y", "z">>
UpperCase == <<"A", "B", "C", "D", "E", "F", "G", "H", "I", "J", "K", "L", "M",
               "N", "O", "P", "Q", "R", "S", "T", "U", "V", "W", "X", "Y", "Z">>
\* The class \w of a JavaScript regular expression without the u flag.
WordChar == Digit \cup {LowerCase[i] : i \in 1..26}
                  \cup {UpperCase[i] : i \in 1..26} \cup {"_"}

\* String.prototype.toLowerCase, one character.
ToLowerChar(c) ==
  IF \E i \in 1..26 : UpperCase[i] = c
    THEN LowerCase[CHOOSE i \in 1..26 : UpperCase[i] = c]
    ELSE c

toLowerCase(s) == [i \in 1..Len(s) |-> ToLowerChar(s[i])]

\* The value of one decimal digit character.
DigitValue(c) == (CHOOSE i \in 1..10 : DigitChars[i] = c) - 1

\* parseInt(s, 10) of a string of decimal digits.
RECURSIVE parseInt(_)
parseInt(s) ==
  IF Len(s) = 0 THEN 0
  ELSE 10 * parseInt(SubSeq(s, 1, Len(s) - 1)) + DigitValue(s[Len(s)])

\* The length of the longest prefix of s made of characters of class.
PrefixLen(s, class) ==
  CHOOSE n \in 0..Len(s) :
    /\ \A k \in 1..n : s[k] \in class
    /\ (n < Len(s) => s[n + 1] \notin class)

(***************************************************************************)
(* setDateRecurring's interval parsing.                                    *)
(***************************************************************************)
\* task.recurring.match(/^(\d+) (\w+)/): both quantifiers are greedy and the
\* character after each group lies outside the group's class, so the match,
\* when there is one, is the longest digit run, one space, the longest word run.
recurringRegex(s) ==
  LET n    == PrefixLen(s, Digit)
      rest == SubSeq(s, n + 2, Len(s))
      m    == PrefixLen(rest, WordChar)
  IN  IF n >= 1 /\ Len(s) >= n + 1 /\ s[n + 1] = " " /\ m >= 1
        THEN [matched |-> TRUE, g1 |-> SubSeq(s, 1, n), g2 |-> SubSeq(rest, 1, m)]
        ELSE [matched |-> FALSE, g1 |-> <<>>, g2 |-> <<>>]

\* const unitMapping = { 'week': 'weeks', 'day': 'days', ... }: a lookup of a
\* key the object does not have yields undefined.
unitMapping(word) ==
  CASE word = <<"w", "e", "e", "k">>      -> "weeks"
    [] word = <<"d", "a", "y">>           -> "days"
    [] word = <<"m", "o", "n", "t", "h">> -> "months"
    [] word = <<"y", "e", "a", "r">>      -> "years"
    [] OTHER                              -> Undefined

acceptableUnits == {"weeks", "days", "months", "years"}

\* The condition of line 88 negated: the spec parses.
ValidRecurring(s) ==
  LET parsedRecurring == recurringRegex(s)
  IN  /\ parsedRecurring.matched
      /\ unitMapping(toLowerCase(parsedRecurring.g2)) \in acceptableUnits

\* Lines 93-94: the unit and the value of a spec that parses.
ParsedInterval(s) ==
  LET parsedRecurring == recurringRegex(s)
  IN  [unit  |-> unitMapping(toLowerCase(parsedRecurring.g2)),
       value |-> parseInt(parsedRecurring.g1)]

(***************************************************************************)
(* Calendar arithmetic: date-fns parseISO, add and format as                *)
(* setDateRecurring calls them.                                            *)
(***************************************************************************)
IsLeapYear(y) == (y % 4 = 0 /\ y % 100 # 0) \/ y % 400 = 0

DaysInMonth(y, m) ==
  IF m = 2 THEN (IF IsLeapYear(y) THEN 29 ELSE 28)
  ELSE IF m \in {4, 6, 9, 11} THEN 30 ELSE 31

NextDay(date) ==
  LET y == date[1]
      m == date[2]
      d == date[3]
  IN  IF d < DaysInMonth(y, m) THEN <<y, m, d + 1>>
      ELSE IF m < 12 THEN <<y, m + 1, 1>>
      ELSE <<y + 1, 1, 1>>

\* date-fns addDays.
RECURSIVE addDays(_, _)
addDays(date, n) == IF n = 0 THEN date ELSE addDays(NextDay(date), n - 1)

\* date-fns addMonths: the day of the month is kept, or clamped to the last
\* day of the month reached.
addMonths(date, n) ==
  LET total == date[1] * 12 + (date[2] - 1) + n
      y     == total \div 12
      m     == (total % 12) + 1
      last  == DaysInMonth(y, m)
  IN  <<y, m, IF date[3] >= last THEN last ELSE date[3]>>

\* date-fns add(date, { [unit]: value }): months and years first, then
\* weeks and days.
\* add with every unit taken for days.
addAsDays(date, unit, value) == addDays(date, value)

add(date, unit, value) ==
  CASE unit = "years"  -> addMonths(date, 12 * value)
    [] unit = "months" -> addMonths(date, value)
    [] unit = "weeks"  -> addDays(date, 7 * value)
    [] unit = "days"   -> addDays(date, value)

\* The decimal digits of n, left-padded with zeros to width w.
RECURSIVE Pad(_, _)
Pad(n, w) ==
  IF w = 0 THEN <<>> ELSE Append(Pad(n \div 10, w - 1), DigitChars[(n % 10) + 1])

\* date-fns format(date, "yyyy-MM-dd").
format(date) ==
  Pad(date[1], 4) \o <<"-">> \o Pad(date[2], 2) \o <<"-">> \o Pad(date[3], 2)

\* date-fns parseISO of a date-only string "yyyy-MM-dd" (the time of day of a
\* date-time value is not modelled); anything else is an Invalid Date.
InvalidDate == <<0, 0, 0>>

parseISO(s) ==
  IF /\ s # Undefined
     /\ Len(s) = 10
     /\ s[5] = "-" /\ s[8] = "-"
     /\ \A k \in {1, 2, 3, 4, 6, 7, 9, 10} : s[k] \in Digit
    THEN <<parseInt(SubSeq(s, 1, 4)), parseInt(SubSeq(s, 6, 7)),
           parseInt(SubSeq(s, 9, 10))>>
    ELSE InvalidDate

\* d1 >= d2 on Dates; a comparison with an Invalid Date (NaN) is false.
DateGeq(d1, d2) ==
  /\ d1 # InvalidDate
  /\ d2 # InvalidDate
  /\ \/ d1[1] > d2[1]
     \/ d1[1] = d2[1] /\ d1[2] > d2[2]
     \/ d1[1] = d2[1] /\ d1[2] = d2[2] /\ d1[3] >= d2[3]

\* Lines 85 and 93-95: the Date Recurring value computed for a task.
ComputeDateRecurring(date_completed, recurring) ==
  LET interval == ParsedInterval(recurring)
  IN  format(add(parseISO(date_completed), interval.unit, interval.value))

(***************************************************************************)
(* Configuration: src/libs/config.mjs.                                     *)
(***************************************************************************)
\* The label of the source is "Done" followed by an emoji, a character the
\* strings of this module cannot hold; the label is only ever compared.
completedTaskStatus == "Done"
recurTaskStatus == "New Recurring"
\* An exclusion list without Date Recurring.
excludeWithoutDateRecurring == {"Date Created", "Date Completed"}
propertiesToExclude == {"Date Created", "Date Completed", "Date Recurring"}
\* The status the Done filter and the Recurring Archive filter select.
\* A filter that also selects the archived tasks.
getDoneAndArchivedFilter == {completedTaskStatus, "Archive"}
getDoneTasksFilter == {completedTaskStatus}
\* A filter that also selects the tasks already archived.
getAllArchivedTasksFilter == {"Recurring Archive", "Archive"}
getRecurringArchivedTasksFilter == {"Recurring Archive"}

(***************************************************************************)
(* The remote store and the data of the model.                             *)
(***************************************************************************)
\* The properties of a page of the task database.  "Notes" stands for any
\* property the owner of the database has defined.
PropertyNames ==
  {"Name", "Status", "Recurring", "Date Recurring", "Date Completed",
   "Date Created", "Notes"}

\* The page ids of the tasks the database starts with.
InitialTasks == {1, 2}
PageIds == 1..MaxPages
\* reason.pageId of an error that is not an errorPageId: undefined.
UndefinedId == 0

\* The days on which the job runs, in order.
Days == << <<2024, 3, 1>>, <<2024, 3, 8>>, <<2024, 3, 15>> >>

OneWeek == <<"1", " ", "w", "e", "e", "k">>
Soon == <<"s", "o", "o", "n">>
\* The recurring specs of the two initial tasks (Undefined: the property is
\* empty), up to the order of the tasks.
TaskSpecs ==
  {<<Undefined, Undefined>>, <<Undefined, OneWeek>>, <<Undefined, Soon>>,
   <<OneWeek, OneWeek>>, <<OneWeek, Soon>>, <<Soon, Soon>>}
\* Specs of the shape '<positive integer><space><unit>', the unit one of day,
\* days, week, weeks, month, months, year, years in any letter case.
WellFormedSpecs ==
  {<<"1", " ", "w", "e", "e", "k">>,
   <<"2", " ", "w", "e", "e", "k", "s">>,
   <<"1", " ", "d", "a", "y">>,
   <<"3", " ", "d", "a", "y", "s">>,
   <<"1", " ", "m", "o", "n", "t", "h">>,
   <<"2", " ", "M", "o", "n", "t", "h", "s">>,
   <<"1", " ", "y", "e", "a", "r">>,
   <<"2", " ", "y", "e", "a", "r", "s">>,
   <<"1", " ", "W", "E", "E", "K">>,
   <<"1", "0", " ", "D", "a", "y", "s">>,
   <<"2", " ", "W", "e", "e", "k">>}

\* Specs that do not start with '<positive integer><space><unit word>'.
MalformedSpecs ==
  {<<"s", "o", "o", "n">>,
   <<"-", "1", " ", "w", "e", "e", "k">>,
   <<"1", " ", "f", "o", "r", "t", "n", "i", "g", "h", "t">>,
   <<"0", " ", "w", "e", "e", "k">>,
   <<" ", "1", " ", "w", "e", "e", "k">>,
   <<"1", "w", "e", "e", "k">>,
   <<"1", " ", " ", "w", "e", "e", "k">>,
   <<"w", "e", "e", "k">>,
   <<"o", "n", "e", " ", "w", "e", "e", "k">>,
   <<"0", "0", " ", "d", "a", "y", "s">>,
   <<"1", ".", "5", " ", "w", "e", "e", "k", "s">>}

\* Specs with text after a well-formed start.
TrailingTextSpecs ==
  {<<"1", " ", "w", "e", "e", "k", " ", "l", "a", "t", "e", "r">>,
   <<"1", " ", "w", "e", "e", "k", "l", "y">>}

\* The recurring spec and the hand-set Date Recurring of the single initial
\* task of SpecSingle.
SingleTaskInputs ==
  {<<recurring, Undefined>> :
     recurring \in WellFormedSpecs \cup MalformedSpecs \cup TrailingTextSpecs}
    \cup {<<recurring, format(<<2024, 3, 8>>)>> : recurring \in {Undefined, OneWeek, Soon}}

\* JavaScript truthiness of a string-or-undefined value.
Truthy(v) == v # Undefined /\ v # <<>>

VARIABLES
  pages,                \* the task database: page id -> property bag
  cards,                \* the error cards of the database: a bag of property bags
  today,                \* index into Days of the current date
  pc,                   \* where the run is
  recur,                \* archiveTasks' parameter recur
  processedTasks,       \* processDoneTasks: processedTasks
  recurringTasks,       \* processDoneTasks: recurringTasks
  recurringResults,     \* setDateRecurring: results
  tasksToRecur,         \* handleRecurringTasks: tasksToRecur
  creationResults,      \* createRecurringTasks: results
  excludeRejectedList,  \* excludeFailedResults' value, in either pass
  tasksToArchive,       \* archiveTasks: tasksToArchive
  archiveResults,       \* archiveTasks: results
  processedTaskStats,   \* the value processDoneTasks returns
  tasksToRecurStats,    \* the value handleRecurringTasks returns
  summary,              \* createSummary's value, once logged
  doneFetched,          \* history: the page ids the Done query returned
  issued,               \* history: the update requests of this run
  failed,               \* history: the work items of this run that rejected
  cardErrors,           \* history: the error cards whose creation threw
  cardLog,              \* the cards logged as already created (helpers line 103)
  exitCode,             \* the exit code of the process of the run that ended last
  createRequests,       \* history: new page id -> the create request of this run
  clones,               \* history: page id -> tasks created from it, ever
  faults                \* history: the remote calls that have failed so far

runVars ==
  <<pc, recur, processedTasks, recurringTasks, recurringResults, tasksToRecur,
    creationResults, excludeRejectedList, tasksToArchive, archiveResults,
    processedTaskStats, tasksToRecurStats, summary, doneFetched, issued,
    failed, cardErrors, cardLog, exitCode>>

vars == <<pages, cards, today, createRequests, clones, faults, runVars>>

Today == Days[today]

\* The set S of integers as a sequence in ascending order.
SortedSeq(S) ==
  CHOOSE s \in [1..Cardinality(S) -> S] :
    \A i, j \in 1..Cardinality(S) : i < j => s[i] < s[j]

\* Array.prototype.includes.
Includes(s, v) == \E i \in 1..Len(s) : s[i] = v

\* notionDatabaseQuery(config.tasksDb, filter): the pages whose Status the
\* filter selects, as a sequence.
notionDatabaseQuery(filter) ==
  SortedSeq({id \in DOMAIN pages : pages[id]["Status"] \in filter})

\* processTasks throws a TypeError on a page whose Date Completed is empty
\* (task.properties['Date Completed'].date is null).
processTasksThrows(results) ==
  \E i \in 1..Len(results) : pages[results[i]]["Date Completed"] = Undefined

\* processTasks: the task objects built from the query's results.
processTasks(results) ==
  [i \in 1..Len(results) |->
    [name           |-> pages[results[i]]["Name"],
     page_id        |-> results[i],
     recurring      |-> pages[results[i]]["Recurring"],
     date_recurring |-> pages[results[i]]["Date Recurring"],
     date_completed |-> pages[results[i]]["Date Completed"],
     properties     |-> pages[results[i]]]]

(***************************************************************************)
(* Outcomes of the work items (the entries of Promise.allSettled's value). *)
(***************************************************************************)
Pending == [status |-> "pending", page_id |-> UndefinedId, pageId |-> UndefinedId,
            name |-> "", newPageId |-> UndefinedId]

\* { status: 'fulfilled', value: { success: true, page_id, ... } }
Fulfilled(page_id, newPageId) ==
  [status |-> "fulfilled", page_id |-> page_id, pageId |-> UndefinedId,
   name |-> "", newPageId |-> newPageId]

\* { status: 'rejected', reason: new errorPageId(message, pageId, name) }
errorPageId(pageId, name) ==
  [status |-> "rejected", page_id |-> UndefinedId, pageId |-> pageId,
   name |-> name, newPageId |-> UndefinedId]

\* { status: 'rejected', reason: <the error the Notion client threw> }: an
\* error that is no errorPageId and has no pageId.
RemoteError ==
  [status |-> "rejected", page_id |-> UndefinedId, pageId |-> UndefinedId,
   name |-> "APIResponseError", newPageId |-> UndefinedId]

PendingResults(tasks) == [i \in 1..Len(tasks) |-> Pending]

\* Promise.allSettled has resolved: every work item has settled.
\* Promise.all in place of Promise.allSettled: settled as soon as one work
\* item has rejected.
allFailFast(results) ==
  \/ \A i \in 1..Len(results) : results[i].status # "pending"
  \/ \E i \in 1..Len(results) : results[i].status = "rejected"

allSettled(results) == \A i \in 1..Len(results) : results[i].status # "pending"

\* excludeFailedResults that excludes nothing.
excludeNothing(results) == <<>>

\* excludeFailedResults: the reason.pageId of every rejected result.
excludeFailedResults(results) ==
  LET rejected == SelectSeq(results, LAMBDA r : r.status = "rejected")
  IN  [i \in 1..Len(rejected) |-> rejected[i].pageId]

CountStatus(results, status) ==
  Cardinality({i \in 1..Len(results) : results[i].status = status})

(***************************************************************************)
(* Error cards: createErrorCard of src/libs/helpers.mjs.                   *)
(***************************************************************************)
ErrorTypes == {"InvalidRecurring", "RecurCreationFail", "ArchiveFailed"}

\* The title of the card: the text of the error type, the task's id and name.
ErrorCardName(taskId, taskName, errorType) ==
  [text |-> CASE errorType = "InvalidRecurring"  -> "Recurring format is invalid for task"
              [] errorType = "RecurCreationFail" -> "Failed to create recurring task for task"
              [] errorType = "ArchiveFailed"     -> "Failed to archive task",
   taskId |-> taskId,
   taskName |-> taskName]

\* A card put among the completed tasks.
ErrorCardCompleted(taskId, taskName, errorType) ==
  [Name |-> ErrorCardName(taskId, taskName, errorType), Status |-> completedTaskStatus]

ErrorCard(taskId, taskName, errorType) ==
  [Name |-> ErrorCardName(taskId, taskName, errorType), Status |-> recurTaskStatus]

\* What the remote calls of createErrorCard can do: both succeed, or the
\* query throws (a create that throws when no card exists leaves the same
\* state, and with a card there is no create).
CardOutcomes == {"ok", "queryThrows"}

\* A remote call may fail only while the behaviour has failures left.
MayFail == faults < MaxFaults

\* The remote calls of createErrorCard that fail under an outcome.
CardFaults(outcome) == IF outcome = "queryThrows" THEN 1 ELSE 0

\* A dedup query that never finds the card.
NeverFound(card) == TRUE

\* existingPage.results.length === 0
NoExistingCard(card) == CopiesIn(card, cards) = 0

\* Whether createErrorCard ends in its catch block.
createErrorCardThrows(taskId, taskName, errorType, outcome) ==
  outcome = "queryThrows"

\* The cards of the database after createErrorCard.
createErrorCard(taskId, taskName, errorType, outcome) ==
  LET card == ErrorCard(taskId, taskName, errorType)
  IN  IF outcome = "ok" /\ NoExistingCard(card)
        THEN cards (+) SetToBag({card})
        ELSE cards

\* Line 103, the other branch: the cards logged as already created, after
\* createErrorCard.
CardLogAfter(taskId, taskName, errorType, outcome) ==
  LET card == ErrorCard(taskId, taskName, errorType)
  IN  IF outcome = "ok" /\ ~NoExistingCard(card)
        THEN cardLog \cup {card}
        ELSE cardLog

\* A work item that rejects with createErrorCard's own error when the card's
\* remote calls throw.
RejectionReraised(pageId, name, outcome) ==
  IF outcome = "queryThrows" THEN RemoteError ELSE errorPageId(pageId, name)

\* await createErrorCard(...); throw new errorPageId(...): createErrorCard
\* catches what its remote calls throw (lines 105-107), so the work item goes
\* on to reject with errorPageId under every outcome.
RejectionAfterCard(pageId, name, outcome) == errorPageId(pageId, name)

\* The history of card failures after createErrorCard.
CardErrorsAfter(taskId, taskName, errorType, outcome) ==
  IF createErrorCardThrows(taskId, taskName, errorType, outcome)
    THEN cardErrors \cup {ErrorCard(taskId, taskName, errorType)}
    ELSE cardErrors

(***************************************************************************)
(* The initial state: the database holds the initial tasks, none of them   *)
(* completed yet, and no run is under way.                                 *)
(***************************************************************************)
TaskName(id) == IF id = 1 THEN "Clip nails" ELSE "Water plants"
TaskNotes(id) == IF id = 1 THEN "dog" ELSE "garden"

InitialPage(id, recurring, dateRecurring) ==
  [p \in PropertyNames |->
    CASE p = "Name"           -> TaskName(id)
      [] p = "Status"         -> "To Do"
      [] p = "Recurring"      -> recurring
      [] p = "Date Recurring" -> dateRecurring
      [] p = "Date Completed" -> Undefined
      [] p = "Date Created"   -> format(Days[1])
      [] p = "Notes"          -> TaskNotes(id)]

\* let stats = {...} of processDoneTasks.
InitialDoneStats ==
  [totalCompletedTasks |-> 0, recurringTasksCompleted |-> 0, archivedTasks |-> 0,
   archiveFailures |-> 0, recurringParseFailures |-> 0]

\* let stats = {...} of handleRecurringTasks.
InitialRecurStats ==
  [recurredTasks |-> 0, recurCreationFailures |-> 0, archivedTasks |-> 0,
   archiveFailures |-> 0]

\* No run is under way: the state of a fresh process.
\* No process has ended since the run under way started, or none ever ran.
NoExitCode == -1

\* The exit code of the process: the coordinator catches every error (lines
\* 115-117), nothing sets process.exitCode and nothing is rethrown, so node
\* ends with code 0 after the summary and after a critical error alike.
processExitCode(at) == 0

RunInit ==
  /\ pc = "idle"
  /\ recur = TRUE
  /\ processedTasks = <<>>
  /\ recurringTasks = <<>>
  /\ recurringResults = <<>>
  /\ tasksToRecur = <<>>
  /\ creationResults = <<>>
  /\ excludeRejectedList = <<>>
  /\ tasksToArchive = <<>>
  /\ archiveResults = <<>>
  /\ processedTaskStats = InitialDoneStats
  /\ tasksToRecurStats = InitialRecurStats
  /\ summary = <<>>
  /\ doneFetched = {}
  /\ issued = {}
  /\ failed = {}
  /\ cardErrors = {}
  /\ cardLog = {}
  /\ exitCode = NoExitCode
  /\ createRequests = <<>>

\* Nothing has happened yet: no card, no clone, no failure, no run.
StoreInit ==
  /\ cards = EmptyBag
  /\ today = 1
  /\ clones = [id \in PageIds |-> 0]
  /\ faults = 0

\* Two tasks, each with an interval spec or none.
Init ==
  /\ \E recurring \in TaskSpecs :
       pages = [id \in InitialTasks |-> InitialPage(id, recurring[id], Undefined)]
  /\ StoreInit
  /\ RunInit

\* One task, with any of the specs and hand-set dates of SingleTaskInputs.
InitSingle ==
  /\ \E input \in SingleTaskInputs :
       pages = [id \in {1} |-> InitialPage(id, input[1], input[2])]
  /\ StoreInit
  /\ RunInit

(***************************************************************************)
(* The environment: the owner of the board and the calendar.               *)
(***************************************************************************)
\* The owner moves a task to Done; the board's automation, when it is set
\* up, stamps Date Completed with the current date.
OwnerCompletes(id, automation) ==
  /\ pc = "idle"
  /\ id \in DOMAIN pages
  /\ pages[id]["Status"] \in {"To Do", recurTaskStatus}
  /\ pages' = [pages EXCEPT ![id] =
                 [@ EXCEPT !["Status"] = completedTaskStatus,
                           !["Date Completed"] =
                              IF automation THEN format(Today) ELSE @]]
  /\ UNCHANGED <<cards, today, createRequests, clones, faults, runVars>>

AdvanceDay ==
  /\ pc = "idle"
  /\ today < Len(Days)
  /\ today' = today + 1
  /\ UNCHANGED <<pages, cards, createRequests, clones, faults, runVars>>

(***************************************************************************)
(* Pass one: processDoneTasks.                                             *)
(***************************************************************************)
\* An errorHandler that logs and returns: the run goes on after the function
\* that caught the error.
errorSwallowed(context) ==
  IF context = "Process completed tasks" THEN "handleRecurringTasks" ELSE "done"

\* errorHandler rethrows (helpers.mjs line 19), out of the catch block of
\* processDoneTasks or handleRecurringTasks and so into the catch block of
\* the run coordinator (index.mjs lines 115-117): where the run is next.
errorHandler(context) == "critical"

\* task => task.recurring || task.date_recurring
IsRecurring(task) == Truthy(task.recurring) \/ Truthy(task.date_recurring)

\* Lines 25-34 of index.mjs: the query, processTasks, the filter, and the
\* call of setDateRecurring, whose work items start.  An error thrown here
\* is rethrown by errorHandler and caught by the run coordinator.
ProcessDoneTasks ==
  /\ pc = "idle"
  /\ \E queryOk \in BOOLEAN :
       LET doneTasks == notionDatabaseQuery(getDoneTasksFilter)
           processed == processTasks(doneTasks)
           recurring == SelectSeq(processed, IsRecurring)
       IN  IF ~queryOk
             THEN /\ MayFail
                  /\ faults' = faults + 1
                  /\ pc' = errorHandler("Process completed tasks")
                  /\ UNCHANGED <<doneFetched, processedTasks, recurringTasks,
                                 recurringResults>>
           ELSE IF Len(doneTasks) = 0
             THEN /\ pc' = "handleRecurringTasks"
                  /\ UNCHANGED <<faults, doneFetched, processedTasks, recurringTasks,
                                 recurringResults>>
           ELSE IF processTasksThrows(doneTasks)
             THEN /\ pc' = errorHandler("Process completed tasks")
                  /\ doneFetched' = {doneTasks[i] : i \in 1..Len(doneTasks)}
                  /\ UNCHANGED <<faults, processedTasks, recurringTasks,
                                 recurringResults>>
           ELSE /\ pc' = "setDateRecurring"
                /\ doneFetched' = {doneTasks[i] : i \in 1..Len(doneTasks)}
                /\ UNCHANGED faults
                /\ processedTasks' = processed
                /\ recurringTasks' = recurring
                /\ recurringResults' = PendingResults(recurring)
  /\ exitCode' = NoExitCode
  /\ UNCHANGED <<pages, cards, today, createRequests, clones, recur, tasksToRecur,
                 creationResults, excludeRejectedList, tasksToArchive,
                 archiveResults, processedTaskStats, tasksToRecurStats, summary,
                 issued, failed, cardErrors, cardLog>>

\* notionPageUpdate(id, { [property]: value }) when it succeeds.
notionPageUpdate(id, property, value) ==
  [pages EXCEPT ![id] = [@ EXCEPT ![property] = value]]

\* A test that takes every task for one without a date.
AlwaysNeedsDate(task) == TRUE

\* Line 84: if (!task.date_recurring)
NeedsDateRecurring(task) == ~Truthy(task.date_recurring)

\* Lines 83-105 of taskProcessors.mjs: the work item of one task.
SetDateRecurringTask(i) ==
  /\ pc = "setDateRecurring"
  /\ i \in 1..Len(recurringTasks)
  /\ recurringResults[i].status = "pending"
  /\ LET task == recurringTasks[i]
     IN  IF ~NeedsDateRecurring(task)
           THEN /\ recurringResults' =
                     [recurringResults EXCEPT ![i] = Fulfilled(task.page_id, UndefinedId)]
                /\ UNCHANGED <<pages, cards, issued, failed, cardErrors, cardLog, faults>>
         ELSE IF ~ValidRecurring(task.recurring)
           THEN \E outcome \in CardOutcomes :
                  /\ faults' = faults + CardFaults(outcome)
                  /\ faults' <= MaxFaults
                  /\ cards' = createErrorCard(task.page_id, task.name,
                                              "InvalidRecurring", outcome)
                  /\ cardErrors' = CardErrorsAfter(task.page_id, task.name,
                                                   "InvalidRecurring", outcome)
                  /\ cardLog' = CardLogAfter(task.page_id, task.name,
                                                   "InvalidRecurring", outcome)
                  /\ recurringResults' =
                       [recurringResults EXCEPT
                          ![i] = RejectionAfterCard(task.page_id, "InvalidRecurring", outcome)]
                  /\ failed' = failed \cup
                       {[page_id |-> task.page_id, stage |-> "setDateRecurring"]}
                  /\ UNCHANGED <<pages, issued>>
         ELSE \E updateOk \in BOOLEAN :
                /\ issued' = issued \cup
                     {[page_id |-> task.page_id, property |-> "Date Recurring"]}
                /\ IF updateOk
                     THEN /\ pages' = notionPageUpdate(task.page_id, "Date Recurring",
                                 ComputeDateRecurring(task.date_completed, task.recurring))
                          /\ recurringResults' =
                               [recurringResults EXCEPT
                                  ![i] = Fulfilled(task.page_id, UndefinedId)]
                          /\ UNCHANGED <<failed, faults>>
                     ELSE /\ MayFail
                          /\ faults' = faults + 1
                          /\ recurringResults' =
                               [recurringResults EXCEPT ![i] = RemoteError]
                          /\ failed' = failed \cup
                               {[page_id |-> task.page_id, stage |-> "setDateRecurring"]}
                          /\ UNCHANGED pages
                /\ UNCHANGED <<cards, cardErrors, cardLog>>
  /\ UNCHANGED <<exitCode, today, createRequests, clones, pc, recur, processedTasks,
                 recurringTasks, tasksToRecur, creationResults,
                 excludeRejectedList, tasksToArchive, archiveResults,
                 processedTaskStats, tasksToRecurStats, summary, doneFetched>>

\* archiveTasks without its filter.
FilterNothing(tasks, excludeList) == tasks

\* Line 40: tasks.filter(task => !excludeList.includes(task.page_id))
FilterExcluded(tasks, excludeList) ==
  SelectSeq(tasks, LAMBDA task : ~Includes(excludeList, task.page_id))

\* Lines 107-116, then lines 35-40 of index.mjs and of archiveTasks: every work
\* item has settled; the failures are excluded and archiveTasks' work items
\* start.
SetDateRecurringSettled ==
  /\ pc = "setDateRecurring"
  /\ allSettled(recurringResults)
  /\ pc' = "archiveTasks"
  /\ recur' = TRUE
  /\ excludeRejectedList' = excludeFailedResults(recurringResults)
  /\ tasksToArchive' = FilterExcluded(processedTasks, excludeRejectedList')
  /\ archiveResults' = PendingResults(tasksToArchive')
  /\ UNCHANGED <<exitCode, pages, cards, today, createRequests, clones, faults, processedTasks,
                 recurringTasks, recurringResults, tasksToRecur, creationResults,
                 processedTaskStats, tasksToRecurStats, summary, doneFetched,
                 issued, failed, cardErrors, cardLog>>

(***************************************************************************)
(* archiveTasks, in either pass.                                           *)
(***************************************************************************)
\* A status that ignores what the task has.
AlwaysArchive(task, isRecur) == "Archive"

\* Line 43: the status a task is given.
ArchiveStatus(task, isRecur) ==
  IF isRecur
    THEN (IF IsRecurring(task) THEN "Recurring Archive" ELSE "Archive")
    ELSE "Archive"

\* Lines 41-53: the work item of one task.
ArchiveTask(i) ==
  /\ pc = "archiveTasks"
  /\ i \in 1..Len(tasksToArchive)
  /\ archiveResults[i].status = "pending"
  /\ LET task == tasksToArchive[i]
     IN  /\ issued' = issued \cup {[page_id |-> task.page_id, property |-> "Status"]}
         /\ \E outcome \in {"updated"} \cup CardOutcomes :
              IF outcome = "updated"
                THEN /\ pages' = notionPageUpdate(task.page_id, "Status",
                                                  ArchiveStatus(task, recur))
                     /\ archiveResults' =
                          [archiveResults EXCEPT ![i] = Fulfilled(task.page_id, UndefinedId)]
                     /\ UNCHANGED <<cards, failed, cardErrors, cardLog, faults>>
                ELSE /\ faults' = faults + 1 + CardFaults(outcome)
                     /\ faults' <= MaxFaults
                     /\ cards' = createErrorCard(task.page_id, task.name,
                                                 "ArchiveFailed", outcome)
                     /\ cardErrors' = CardErrorsAfter(task.page_id, task.name,
                                                      "ArchiveFailed", outcome)
                     /\ cardLog' = CardLogAfter(task.page_id, task.name,
                                                      "ArchiveFailed", outcome)
                     /\ archiveResults' =
                          [archiveResults EXCEPT
                             ![i] = RejectionAfterCard(task.page_id, "ArchiveFailed", outcome)]
                     /\ failed' = failed \cup
                          {[page_id |-> task.page_id, stage |-> "archiveTasks"]}
                     /\ UNCHANGED pages
  /\ UNCHANGED <<exitCode, today, createRequests, clones, pc, recur, processedTasks,
                 recurringTasks, recurringResults, tasksToRecur, creationResults,
                 excludeRejectedList, tasksToArchive, processedTaskStats,
                 tasksToRecurStats, summary, doneFetched>>

\* Statistics that count every result as archived.
archiveStatsAllArchived(results) ==
  [archivedTasks |-> Len(results), failedToArchive |-> 0]

\* Lines 63-66: the value archiveTasks returns.
archiveStats(results) ==
  [archivedTasks   |-> CountStatus(results, "fulfilled"),
   failedToArchive |-> CountStatus(results, "rejected")]

\* processTasks.length of index.mjs line 40: the number of parameters the
\* function processTasks declares.
processTasksLength == 1

\* createSummary of helpers.mjs.
createSummary(doneTasks, toRecur) ==
  [totalCompletedTasks     |-> doneTasks.totalCompletedTasks,
   recurringTasksProcessed |-> doneTasks.recurringTasksCompleted
                                 - doneTasks.recurringParseFailures,
   recurringParseFailures  |-> doneTasks.recurringParseFailures,
   archivedTasks           |-> doneTasks.archivedTasks + toRecur.archivedTasks,
   archiveFailures         |-> doneTasks.archiveFailures + toRecur.archiveFailures,
   recurredTasks           |-> toRecur.recurredTasks,
   recurCreationFailures   |-> toRecur.recurCreationFailures,
   message |-> << IF doneTasks.totalCompletedTasks > 0
                    THEN "Archived and processed completed tasks."
                    ELSE "No completed tasks to archive.",
                  IF toRecur.recurredTasks > 0
                    THEN " Created and archived recurring tasks."
                    ELSE " No new recurring tasks created." >>]

\* Lines 55-66, then the caller: in pass one lines 39-47 of index.mjs (the
\* statistics of processDoneTasks), in pass two lines 91-98 and 111-113 (the
\* statistics of handleRecurringTasks and the summary).
ArchiveTasksSettled ==
  /\ pc = "archiveTasks"
  /\ allSettled(archiveResults)
  /\ IF recur
       THEN /\ pc' = "handleRecurringTasks"
            /\ processedTaskStats' =
                 [totalCompletedTasks     |-> processTasksLength,
                  recurringTasksCompleted |-> Len(recurringTasks),
                  archivedTasks           |-> archiveStats(archiveResults).archivedTasks,
                  archiveFailures         |-> archiveStats(archiveResults).failedToArchive,
                  recurringParseFailures  |-> Len(excludeRejectedList)]
            /\ UNCHANGED <<tasksToRecurStats, summary>>
       ELSE /\ pc' = "done"
            /\ tasksToRecurStats' =
                 [recurredTasks         |-> Len(tasksToRecur),
                  recurCreationFailures |-> Len(excludeRejectedList),
                  archivedTasks         |-> archiveStats(archiveResults).archivedTasks,
                  archiveFailures       |-> archiveStats(archiveResults).failedToArchive]
            /\ summary' = <<createSummary(processedTaskStats, tasksToRecurStats')>>
            /\ UNCHANGED processedTaskStats
  /\ UNCHANGED <<exitCode, pages, cards, today, createRequests, clones, faults, recur,
                 processedTasks,
                 recurringTasks, recurringResults, tasksToRecur, creationResults,
                 excludeRejectedList, tasksToArchive, archiveResults, doneFetched,
                 issued, failed, cardErrors, cardLog>>

(***************************************************************************)
(* Pass two: handleRecurringTasks.                                         *)
(***************************************************************************)
\* new Date(`${task.date_recurring}T00:00`): local midnight of the date, or
\* an Invalid Date when date_recurring is undefined.
NewDate(date_recurring) == parseISO(date_recurring)

\* A filter that keeps every task.
AlwaysDue(task) == TRUE

\* task => new Date() >= new Date(`${task.date_recurring}T00:00`)
IsDue(task) == DateGeq(Today, NewDate(task.date_recurring))

\* Lines 72-87 of index.mjs: the query, processTasks, the filter of the due
\* tasks and the call of createRecurringTasks, whose work items start.  With
\* nothing to recur the initial statistics are returned and the summary is
\* logged (lines 111-113).
HandleRecurringTasks ==
  /\ pc = "handleRecurringTasks"
  /\ \E queryOk \in BOOLEAN :
       LET recurringArchivedTasks == notionDatabaseQuery(getRecurringArchivedTasksFilter)
           processedArchivedTasks == processTasks(recurringArchivedTasks)
           due == SelectSeq(processedArchivedTasks, IsDue)
       IN  IF ~queryOk
             THEN /\ MayFail
                  /\ faults' = faults + 1
                  /\ pc' = errorHandler("Handle recurring tasks")
                  /\ UNCHANGED <<tasksToRecur, creationResults, summary>>
           ELSE IF Len(recurringArchivedTasks) = 0
             THEN /\ pc' = "done"
                  /\ summary' = <<createSummary(processedTaskStats, tasksToRecurStats)>>
                  /\ UNCHANGED <<faults, tasksToRecur, creationResults>>
           ELSE IF processTasksThrows(recurringArchivedTasks)
             THEN /\ pc' = errorHandler("Handle recurring tasks")
                  /\ UNCHANGED <<faults, tasksToRecur, creationResults, summary>>
           ELSE IF Len(due) = 0
             THEN /\ pc' = "done"
                  /\ summary' = <<createSummary(processedTaskStats, tasksToRecurStats)>>
                  /\ UNCHANGED <<faults, tasksToRecur, creationResults>>
           ELSE /\ pc' = "createRecurringTasks"
                /\ tasksToRecur' = due
                /\ creationResults' = PendingResults(due)
                /\ UNCHANGED <<faults, summary>>
  /\ UNCHANGED <<exitCode, pages, cards, today, createRequests, clones, recur, processedTasks,
                 recurringTasks, recurringResults, excludeRejectedList,
                 tasksToArchive, archiveResults, processedTaskStats,
                 tasksToRecurStats, doneFetched, issued, failed, cardErrors, cardLog>>

\* The property bag without the exclusion of propertiesToExclude.
newPropertiesKeepingDates(task) ==
  [p \in DOMAIN task.properties \cup {"Status"} |->
    IF p = "Status" THEN recurTaskStatus ELSE task.properties[p]]

\* Lines 132-135: the property bag of the new task.
\* A variant that also leaves the recurring spec out of the new task.
newPropertiesWithoutRecurring(task) ==
  [p \in (DOMAIN task.properties \cup {"Status"})
           \ (propertiesToExclude \cup {"Recurring"}) |->
    IF p = "Status" THEN recurTaskStatus ELSE task.properties[p]]

newProperties(task) ==
  [p \in (DOMAIN task.properties \cup {"Status"}) \ propertiesToExclude |->
    IF p = "Status" THEN recurTaskStatus ELSE task.properties[p]]

\* The page the database holds after notionPageCreate(tasksDb, properties):
\* the properties of the request, the creation date set by the database, and
\* every other property empty.
CreatedPage(properties) ==
  [p \in PropertyNames |->
    IF p \in DOMAIN properties THEN properties[p]
    ELSE IF p = "Date Created" THEN format(Today)
    ELSE Undefined]

\* The id the database gives the next page.
FreePageIds == PageIds \ DOMAIN pages
NextPageId == CHOOSE id \in FreePageIds : \A other \in FreePageIds : id <= other

\* Lines 130-146: the work item of one task.  The database can create a page
\* only while it has a page id left.
CreateRecurringTask(i) ==
  /\ pc = "createRecurringTasks"
  /\ i \in 1..Len(tasksToRecur)
  /\ creationResults[i].status = "pending"
  /\ LET task == tasksToRecur[i]
     IN  \E outcome \in {"created"} \cup CardOutcomes :
           IF outcome = "created"
             THEN /\ FreePageIds # {}
                  /\ pages' = (NextPageId :> CreatedPage(newProperties(task))) @@ pages
                  /\ createRequests' =
                       (NextPageId :> [oldPageId |-> task.page_id,
                                       properties |-> newProperties(task)])
                         @@ createRequests
                  /\ clones' = [clones EXCEPT ![task.page_id] = @ + 1]
                  /\ creationResults' =
                       [creationResults EXCEPT ![i] = Fulfilled(task.page_id, NextPageId)]
                  /\ UNCHANGED <<cards, failed, cardErrors, cardLog, faults>>
             ELSE /\ faults' = faults + 1 + CardFaults(outcome)
                  /\ faults' <= MaxFaults
                  /\ cards' = createErrorCard(task.page_id, task.name,
                                              "RecurCreationFail", outcome)
                  /\ cardErrors' = CardErrorsAfter(task.page_id, task.name,
                                                   "RecurCreationFail", outcome)
                  /\ cardLog' = CardLogAfter(task.page_id, task.name,
                                                   "RecurCreationFail", outcome)
                  /\ creationResults' =
                       [creationResults EXCEPT
                          ![i] = RejectionAfterCard(task.page_id, "RecurCreationFail", outcome)]
                  /\ failed' = failed \cup
                       {[page_id |-> task.page_id, stage |-> "createRecurringTasks"]}
                  /\ UNCHANGED <<pages, createRequests, clones>>
  /\ UNCHANGED <<exitCode, today, pc, recur, processedTasks, recurringTasks, recurringResults,
                 tasksToRecur, excludeRejectedList, tasksToArchive, archiveResults,
                 processedTaskStats, tasksToRecurStats, summary, doneFetched,
                 issued>>

\* Lines 149-158, then lines 88-89 of index.mjs and line 40 of archiveTasks:
\* every creation has settled; the failures are excluded and archiveTasks'
\* work items start.
CreateRecurringTasksSettled ==
  /\ pc = "createRecurringTasks"
  /\ allSettled(creationResults)
  /\ pc' = "archiveTasks"
  /\ recur' = FALSE
  /\ excludeRejectedList' = excludeFailedResults(creationResults)
  /\ tasksToArchive' = FilterExcluded(tasksToRecur, excludeRejectedList')
  /\ archiveResults' = PendingResults(tasksToArchive')
  /\ UNCHANGED <<exitCode, pages, cards, today, createRequests, clones, faults, processedTasks,
                 recurringTasks, recurringResults, tasksToRecur, creationResults,
                 processedTaskStats, tasksToRecurStats, summary, doneFetched,
                 issued, failed, cardErrors, cardLog>>

\* The process ends, after the summary (line 113) or after the run
\* coordinator has logged a critical error (line 116); the next run starts
\* from a fresh process.
Exit ==
  /\ pc \in {"done", "critical"}
  /\ pc' = "idle"
  /\ recur' = TRUE
  /\ processedTasks' = <<>>
  /\ recurringTasks' = <<>>
  /\ recurringResults' = <<>>
  /\ tasksToRecur' = <<>>
  /\ creationResults' = <<>>
  /\ excludeRejectedList' = <<>>
  /\ tasksToArchive' = <<>>
  /\ archiveResults' = <<>>
  /\ processedTaskStats' = InitialDoneStats
  /\ tasksToRecurStats' = InitialRecurStats
  /\ summary' = <<>>
  /\ doneFetched' = {}
  /\ issued' = {}
  /\ failed' = {}
  /\ cardErrors' = {}
  /\ cardLog' = {}
  /\ exitCode' = processExitCode(pc)
  /\ createRequests' = <<>>
  /\ UNCHANGED <<pages, cards, today, clones, faults>>

Next ==
  \/ \E id \in PageIds, automation \in BOOLEAN : OwnerCompletes(id, automation)
  \/ AdvanceDay
  \/ ProcessDoneTasks
  \/ \E i \in PageIds : SetDateRecurringTask(i)
  \/ SetDateRecurringSettled
  \/ \E i \in PageIds : ArchiveTask(i)
  \/ ArchiveTasksSettled
  \/ HandleRecurringTasks
  \/ \E i \in PageIds : CreateRecurringTask(i)
  \/ CreateRecurringTasksSettled
  \/ Exit

Spec == Init /\ [][Next]_vars

\* The same program over a database that starts with a single task.
SpecSingle == InitSingle /\ [][Next]_vars

\* The scheduling of the program: a cron job starts the script again and
\* again, and the date keeps advancing between the runs. Nothing obliges
\* the owner to complete a task.
Fairness ==
  /\ WF_vars(ProcessDoneTasks)
  /\ SF_vars(AdvanceDay)

\* The inputs of the scheduled runs: a task that recurs every week or every
\* day, a task whose spec does not parse, a task with a manual Date
\* Recurring, and a task that does not recur.
FairInputs ==
  {<<OneWeek, Undefined>>,
   <<Soon, Undefined>>,
   <<<<"1", " ", "d", "a", "y">>, Undefined>>,
   <<Undefined, format(<<2024, 3, 8>>)>>,
   <<Undefined, Undefined>>}

InitFair ==
  /\ \E input \in FairInputs :
       pages = [id \in {1} |-> InitialPage(id, input[1], input[2])]
  /\ StoreInit
  /\ RunInit

\* The single-task database under repeated, scheduled runs.
SpecFair == InitFair /\ [][Next]_vars /\ Fairness
(***************************************************************************)
(* The claims.                                                             *)
(***************************************************************************)
\* The work item of recurringTasks[i] has settled.
DateItemSettled(i) == recurringResults[i].status # "pending"

\* The InvalidRecurring card of a task is in the database.
HasCard(task, errorType) ==
  CopiesIn(ErrorCard(task.page_id, task.name, errorType), cards) >= 1

\* The amount and the plural unit each well-formed spec spells out.
LiteralInterval(recurring) ==
    CASE recurring = <<"1", " ", "w", "e", "e", "k">> -> [amount |-> 1, unit |-> "weeks"]
      [] recurring = <<"2", " ", "w", "e", "e", "k", "s">> -> [amount |-> 2, unit |-> "weeks"]
      [] recurring = <<"1", " ", "d", "a", "y">> -> [amount |-> 1, unit |-> "days"]
      [] recurring = <<"3", " ", "d", "a", "y", "s">> -> [amount |-> 3, unit |-> "days"]
      [] recurring = <<"1", " ", "m", "o", "n", "t", "h">> -> [amount |-> 1, unit |-> "months"]
      [] recurring = <<"2", " ", "M", "o", "n", "t", "h", "s">> -> [amount |-> 2, unit |-> "months"]
      [] recurring = <<"1", " ", "y", "e", "a", "r">> -> [amount |-> 1, unit |-> "years"]
      [] recurring = <<"2", " ", "y", "e", "a", "r", "s">> -> [amount |-> 2, unit |-> "years"]
      [] recurring = <<"1", " ", "W", "E", "E", "K">> -> [amount |-> 1, unit |-> "weeks"]
      [] recurring = <<"1", "0", " ", "D", "a", "y", "s">> -> [amount |-> 10, unit |-> "days"]
      [] recurring = <<"2", " ", "W", "e", "e", "k">> -> [amount |-> 2, unit |-> "weeks"]

\* C1: every recurring spec '<positive integer><space><unit>', the unit one of
\* day, days, week, weeks, month, months, year, years in any letter case, is
\* parsed by setDateRecurring without an InvalidRecurring rejection or error
\* card, and the date written is the completion date plus the literal amount
\* of the literal (plural) unit.
C1_WellFormedSpecParses ==
  \A i \in 1..Len(recurringTasks) :
    LET task == recurringTasks[i]
    IN  (/\ DateItemSettled(i)
         /\ ~Truthy(task.date_recurring)
         /\ task.recurring \in WellFormedSpecs)
        => /\ recurringResults[i].name # "InvalidRecurring"
           /\ ~HasCard(task, "InvalidRecurring")
           /\ recurringResults[i].status = "fulfilled"
                => pages[task.page_id]["Date Recurring"] =
                     format(add(parseISO(task.date_completed),
                                LiteralInterval(task.recurring).unit,
                                LiteralInterval(task.recurring).amount))

\* C2: no task with a recurring spec has been given status Recurring Archive
\* or Archive while its Date Recurring is still unset in the database.
C2_DateRecurringSetBeforeLeaving ==
  \A id \in DOMAIN pages :
    (/\ Truthy(pages[id]["Recurring"])
     /\ pages[id]["Status"] \in {"Recurring Archive", "Archive"})
    => pages[id]["Date Recurring"] # Undefined

\* The index of a task in tasksToArchive, or 0 when it is not there.
ArchiveIndex(page_id) ==
  IF \E j \in 1..Len(tasksToArchive) : tasksToArchive[j].page_id = page_id
    THEN CHOOSE j \in 1..Len(tasksToArchive) : tasksToArchive[j].page_id = page_id
    ELSE 0

\* Pass one's archiveTasks has fulfilled the work item of the task.
ArchivedInPassOne(page_id) ==
  /\ recur
  /\ ArchiveIndex(page_id) # 0
  /\ archiveResults[ArchiveIndex(page_id)].status = "fulfilled"

\* A task completed on 2024-03-01 with spec '1 week' and no Date Recurring.
IsOneWeekTask(task) ==
  /\ task.recurring = <<"1", " ", "w", "e", "e", "k">>
  /\ task.date_completed = <<"2", "0", "2", "4", "-", "0", "3", "-", "0", "1">>
  /\ ~Truthy(task.date_recurring)

\* C3: a completed task with spec '1 week', Date Completed 2024-03-01 and no
\* Date Recurring has Date Recurring 2024-03-08 once setDateRecurring has
\* updated it, and status Recurring Archive once the archiveTasks call that
\* follows in processDoneTasks has updated it.
C3_OneWeekFirstPass ==
  \A i \in 1..Len(recurringTasks) :
    LET task == recurringTasks[i]
    IN  (IsOneWeekTask(task) /\ DateItemSettled(i))
        => /\ recurringResults[i].name # "InvalidRecurring"
           /\ [page_id |-> task.page_id, property |-> "Date Recurring"] \in issued
           /\ recurringResults[i].status = "fulfilled"
                => /\ pages[task.page_id]["Date Recurring"] =
                        <<"2", "0", "2", "4", "-", "0", "3", "-", "0", "8">>
                   /\ ArchivedInPassOne(task.page_id)
                        => pages[task.page_id]["Status"] = "Recurring Archive"

\* C3's case: pass one has ended with the task's date written and the task
\* archived.
C3_Witness ==
  /\ pc = "handleRecurringTasks"
  /\ \E i \in 1..Len(recurringTasks) :
       /\ IsOneWeekTask(recurringTasks[i])
       /\ recurringResults[i].status = "fulfilled"
       /\ ArchivedInPassOne(recurringTasks[i].page_id)

\* C7: every recurring spec that does not start with '<positive
\* integer><space><known unit word>' is rejected by setDateRecurring with an
\* InvalidRecurring failure, and no Date Recurring update is issued for it.
C7_MalformedSpecRejected ==
  \A i \in 1..Len(recurringTasks) :
    LET task == recurringTasks[i]
    IN  (/\ DateItemSettled(i)
         /\ ~Truthy(task.date_recurring)
         /\ task.recurring \in MalformedSpecs)
        => /\ recurringResults[i].status = "rejected"
           /\ recurringResults[i].name = "InvalidRecurring"
           /\ [page_id |-> task.page_id, property |-> "Date Recurring"] \notin issued
           /\ pages[task.page_id]["Date Recurring"] = Undefined

\* The create request of tasksToRecur[i], when its creation was fulfilled.
CloneRequest(i) == createRequests[creationResults[i].newPageId].properties

\* Pass two's archiveTasks has fulfilled the work item of the task.
ArchivedInPassTwo(page_id) ==
  /\ ~recur
  /\ ArchiveIndex(page_id) # 0
  /\ archiveResults[ArchiveIndex(page_id)].status = "fulfilled"

\* C4: the task createRecurringTasks creates for a due Recurring Archive task
\* has the original's property bag with Status set to the new-recurring
\* label, without Date Created, Date Completed and Date Recurring, and with
\* every other property copied unchanged; the original has status Archive
\* once pass two's archiveTasks has updated it.
C4_CloneProperties ==
  \A i \in 1..Len(creationResults) :
    creationResults[i].status = "fulfilled" =>
      LET original == pages[tasksToRecur[i].page_id]
          new      == creationResults[i].newPageId
      IN  /\ tasksToRecur[i].properties["Status"] = "Recurring Archive"
          /\ DOMAIN CloneRequest(i) =
               PropertyNames \ {"Date Created", "Date Completed", "Date Recurring"}
          /\ CloneRequest(i)["Status"] = "New Recurring"
          /\ \A p \in DOMAIN CloneRequest(i) \ {"Status"} :
               CloneRequest(i)[p] = original[p]
          /\ new \in DOMAIN pages
          /\ pages[new]["Date Recurring"] = Undefined
          /\ pages[new]["Date Completed"] = Undefined
          /\ pages[new]["Recurring"] = original["Recurring"]
          /\ ArchivedInPassTwo(tasksToRecur[i].page_id) => original["Status"] = "Archive"

\* C4's case: a run has ended with a task created and its original archived.
C4_Witness ==
  /\ pc = "done"
  /\ \E i \in 1..Len(creationResults) :
       /\ creationResults[i].status = "fulfilled"
       /\ ArchivedInPassTwo(tasksToRecur[i].page_id)
       /\ pages[tasksToRecur[i].page_id]["Status"] = "Archive"

\* C5, as claimed: whatever the remote calls do, no task ever gives rise to
\* more than one new recurring task.
C5_AtMostOneClone == \A id \in PageIds : clones[id] <= 1

\* C5, amended: once a task has status Archive, no step of any run creates a
\* task from it.
C5_ArchivedNeverClonedAgain ==
  [][\A id \in DOMAIN pages :
       pages[id]["Status"] = "Archive" => clones'[id] = clones[id]]_vars

\* C5's case: a task has been cloned and archived, and a later run has come
\* to its end.
C5_Witness ==
  /\ pc = "done"
  /\ creationResults = <<>>
  /\ \E id \in DOMAIN pages : pages[id]["Status"] = "Archive" /\ clones[id] = 1

\* C6: when the recurring spec of a completed task fails to parse, the task
\* has an InvalidRecurring error card (unless the card's own remote calls
\* threw), no Date Recurring update and no status update is issued for it, it
\* is excluded from archival and keeps its completed status; every run whose
\* setDateRecurring stage starts has it among its work items again.
C6_ParseFailureHandling ==
  /\ pc = "setDateRecurring" =>
       \A id \in DOMAIN pages :
         (/\ pages[id]["Status"] = "Done"
          /\ Truthy(pages[id]["Recurring"])
          /\ ~ValidRecurring(pages[id]["Recurring"])
          /\ ~Truthy(pages[id]["Date Recurring"]))
         => \E i \in 1..Len(recurringTasks) : recurringTasks[i].page_id = id
  /\ \A i \in 1..Len(recurringTasks) :
    LET task == recurringTasks[i]
    IN  (/\ DateItemSettled(i)
         /\ ~Truthy(task.date_recurring)
         /\ ~ValidRecurring(task.recurring))
        => /\ recurringResults[i].name = "InvalidRecurring"
           /\ \/ HasCard(task, "InvalidRecurring")
              \/ ErrorCard(task.page_id, task.name, "InvalidRecurring") \in cardErrors
           /\ \A property \in PropertyNames :
                [page_id |-> task.page_id, property |-> property] \notin issued
           /\ pages[task.page_id]["Status"] = "Done"
           /\ pages[task.page_id]["Date Recurring"] = Undefined
           /\ ArchiveIndex(task.page_id) = 0

\* C6's case: pass one has ended with the task rejected, its card in the
\* database and the task left in the completed bucket.
C6_Witness ==
  /\ pc = "handleRecurringTasks"
  /\ cardErrors = {}
  /\ faults = 0
  /\ \E i \in 1..Len(recurringTasks) :
       /\ recurringResults[i].name = "InvalidRecurring"
       /\ HasCard(recurringTasks[i], "InvalidRecurring")
       /\ pages[recurringTasks[i].page_id]["Status"] = "Done"
       /\ clones[recurringTasks[i].page_id] = 0

\* Each work item of a settled stage has a result of its own.
EachItemSettled ==
  /\ pc \notin {"idle", "setDateRecurring"} => \A i \in 1..Len(recurringResults) :
       recurringResults[i].status # "pending"
  /\ pc # "archiveTasks" => \A i \in 1..Len(archiveResults) :
       archiveResults[i].status # "pending"
  /\ pc # "createRecurringTasks" => \A i \in 1..Len(creationResults) :
       creationResults[i].status # "pending"

\* C8: in setDateRecurring, archiveTasks and createRecurringTasks every work
\* item of a batch runs to its own result whatever the other items did: once
\* the stage has settled each task has had its mutation issued, and it is
\* reported fulfilled exactly when its own mutation took effect.
C8_BatchIsolation ==
  /\ Len(recurringResults) = Len(recurringTasks)
  /\ Len(archiveResults) = Len(tasksToArchive)
  /\ Len(creationResults) = Len(tasksToRecur)
  /\ EachItemSettled
  /\ \A i \in 1..Len(recurringTasks) :
       LET task == recurringTasks[i]
       IN  (/\ DateItemSettled(i)
            /\ ~Truthy(task.date_recurring)
            /\ ValidRecurring(task.recurring))
           => /\ [page_id |-> task.page_id, property |-> "Date Recurring"] \in issued
              /\ recurringResults[i].status = "fulfilled"
                   <=> pages[task.page_id]["Date Recurring"] # Undefined
  /\ \A j \in 1..Len(tasksToArchive) :
       LET task == tasksToArchive[j]
       IN  archiveResults[j].status # "pending"
           => /\ [page_id |-> task.page_id, property |-> "Status"] \in issued
              /\ archiveResults[j].page_id = task.page_id \/ archiveResults[j].pageId = task.page_id
              /\ archiveResults[j].status = "fulfilled"
                   <=> pages[task.page_id]["Status"] = ArchiveStatus(task, recur)
  /\ \A i \in 1..Len(tasksToRecur) :
       LET task == tasksToRecur[i]
       IN  creationResults[i].status # "pending"
           => (creationResults[i].status = "fulfilled"
                 <=> \E new \in DOMAIN createRequests :
                       createRequests[new].oldPageId = task.page_id)

\* C8's case: a batch of archiveTasks has settled with one task's update
\* failed and the other task's update done.
C8_Witness ==
  /\ pc = "handleRecurringTasks"
  /\ Len(archiveResults) = 2
  /\ \E j, k \in 1..Len(archiveResults) :
       /\ archiveResults[j].status = "rejected"
       /\ archiveResults[k].status = "fulfilled"
       /\ pages[tasksToArchive[j].page_id]["Status"] = "Done"
       /\ pages[tasksToArchive[k].page_id]["Status"] \in {"Recurring Archive", "Archive"}

\* A fetched task of the completed bucket that is well formed: it has a Date
\* Completed, and a recurring spec that parses when it needs one.
WellFormedRecord(id) ==
  /\ Truthy(pages[id]["Date Completed"])
  /\ (Truthy(pages[id]["Recurring"]) /\ ~Truthy(pages[id]["Date Recurring"]))
       => ValidRecurring(pages[id]["Recurring"])

\* C9: a malformed record in the batch fetched from the completed bucket
\* never keeps the other tasks of the batch from being processed in the same
\* run: when pass one is over, every well-formed task of the batch has had
\* its status update issued.
C9_MalformedRecordIsolated ==
  pc \in {"handleRecurringTasks", "createRecurringTasks", "done", "critical"}
    => \A id \in doneFetched :
         WellFormedRecord(id)
           => [page_id |-> id, property |-> "Status"] \in issued

\* The error type a failure of each stage is recorded under.
StageErrorType(stage) ==
  CASE stage = "setDateRecurring"     -> "InvalidRecurring"
    [] stage = "createRecurringTasks" -> "RecurCreationFail"
    [] stage = "archiveTasks"         -> "ArchiveFailed"

\* C10: after a run in which no call of createErrorCard threw, every task
\* that failed a stage of the run has exactly one error card for that
\* failure in the database.
C10_OneCardPerFailure ==
  (pc = "done" /\ cardErrors = {})
    => \A f \in failed :
         CopiesIn(ErrorCard(f.page_id, pages[f.page_id]["Name"],
                            StageErrorType(f.stage)), cards) = 1

\* C11: createErrorCard called again with the same error type, task id and
\* task name, in the same run or in a later run, creates nothing: the
\* database never holds two cards with one title, and a call that found the
\* card left exactly one.
C11_ErrorCardIdempotent ==
  /\ \A card \in BagToSet(cards) : CopiesIn(card, cards) = 1
  /\ \A card \in cardLog : CopiesIn(card, cards) = 1

\* C11's case: createErrorCard has been called for a card that an earlier
\* call had created.
C11_Witness ==
  \E card \in cardLog :
    /\ CopiesIn(card, cards) = 1
    /\ card \notin cardErrors

\* A Recurring Archive task that handleRecurringTasks finds due.
DueInRecurringArchive(id) ==
  /\ pages[id]["Status"] = "Recurring Archive"
  /\ DateGeq(Today, NewDate(pages[id]["Date Recurring"]))

\* C12: when the creation of the new task fails, the work item is rejected
\* as RecurCreationFail with the task's id, a RecurCreationFail card is
\* created (unless the card's own remote calls threw), the original is left
\* out of the archiveTasks call that follows and stays in Recurring Archive;
\* a run whose createRecurringTasks stage starts has every due Recurring
\* Archive task among its work items.
C12_CloneFailureKeepsOriginal ==
  /\ pc = "createRecurringTasks" =>
       \A id \in DOMAIN pages :
         DueInRecurringArchive(id)
           => \E i \in 1..Len(tasksToRecur) : tasksToRecur[i].page_id = id
  /\ \A i \in 1..Len(creationResults) :
       LET task == tasksToRecur[i]
       IN  creationResults[i].status = "rejected"
           => /\ creationResults[i].name = "RecurCreationFail"
              /\ creationResults[i].pageId = task.page_id
              /\ \/ HasCard(task, "RecurCreationFail")
                 \/ ErrorCard(task.page_id, task.name, "RecurCreationFail") \in cardErrors
              /\ ~recur => ArchiveIndex(task.page_id) = 0
              /\ pages[task.page_id]["Status"] = "Recurring Archive"
              /\ \A new \in DOMAIN createRequests :
                   createRequests[new].oldPageId # task.page_id

\* C12's case: a run has ended with the creation failed for a task whose
\* creation an earlier run had failed too; the task is still in Recurring
\* Archive.
C12_Witness ==
  /\ pc = "done"
  /\ \E i \in 1..Len(creationResults) :
       /\ creationResults[i].status = "rejected"
       /\ ErrorCard(tasksToRecur[i].page_id, tasksToRecur[i].name,
                    "RecurCreationFail") \in cardLog
       /\ pages[tasksToRecur[i].page_id]["Status"] = "Recurring Archive"

\* C13: a task whose Date Recurring is already set, by the owner or by an
\* earlier run, is settled by setDateRecurring as fulfilled without a remote
\* update, in every run, and no step of the program changes the Date
\* Recurring of a page that has one.
C13_DatedTaskUntouched ==
  [][
      /\ \A i \in 1..Len(recurringTasks) :
          (Truthy(recurringTasks[i].date_recurring) /\ DateItemSettled(i))
            => /\ recurringResults[i].status = "fulfilled"
               /\ [page_id |-> recurringTasks[i].page_id,
                   property |-> "Date Recurring"] \notin issued
      /\ \A id \in DOMAIN pages :
           Truthy(pages[id]["Date Recurring"])
             => pages'[id]["Date Recurring"] = pages[id]["Date Recurring"]]_vars

\* C13's case: setDateRecurring has settled a task whose Date Recurring an
\* earlier run computed from its completion on 2024-03-08.
C13_Witness ==
  \E i \in 1..Len(recurringTasks) :
    /\ DateItemSettled(i)
    /\ recurringTasks[i].date_recurring =
         <<"2", "0", "2", "4", "-", "0", "3", "-", "1", "5">>
    /\ recurringTasks[i].date_completed =
         <<"2", "0", "2", "4", "-", "0", "3", "-", "0", "8">>
    /\ pages[recurringTasks[i].page_id]["Date Recurring"] =
         recurringTasks[i].date_recurring

\* The page has a recurring spec or a Date Recurring.
HasSpecOrDate(id) ==
  Truthy(pages[id]["Recurring"]) \/ Truthy(pages[id]["Date Recurring"])

DateNumber(date) == date[1] * 10000 + date[2] * 100 + date[3]

\* The current date is on or after the Date Recurring the page has.
DateRecurringArrived(id) ==
  /\ pages[id]["Date Recurring"] # Undefined
  /\ DateNumber(Today) >= DateNumber(parseISO(pages[id]["Date Recurring"]))

\* C15: handleRecurringTasks takes a Recurring Archive task for cloning and
\* archival exactly when the current date is on or after its Date Recurring;
\* a task that is not yet due has never been cloned and is not among the
\* tasks the archiveTasks call of handleRecurringTasks updates.
C15_DueCheck ==
  /\ pc = "createRecurringTasks" =>
       \A id \in DOMAIN pages :
         pages[id]["Status"] = "Recurring Archive"
           => (DateRecurringArrived(id)
                 <=> \E i \in 1..Len(tasksToRecur) : tasksToRecur[i].page_id = id)
  /\ \A i \in 1..Len(tasksToRecur) : DateRecurringArrived(tasksToRecur[i].page_id)
  /\ \A id \in DOMAIN pages :
       (pages[id]["Status"] = "Recurring Archive" /\ ~DateRecurringArrived(id))
         => /\ clones[id] = 0
            /\ \A new \in DOMAIN createRequests : createRequests[new].oldPageId # id
            /\ ~recur => ArchiveIndex(id) = 0

\* C15's case: a run has ended with one Recurring Archive task, due, cloned
\* and archived, and another, not yet due, left as it was.
C15_Witness ==
  /\ pc = "done"
  /\ ~recur
  /\ \E i \in 1..Len(tasksToRecur), id \in DOMAIN pages :
       /\ creationResults[i].status = "fulfilled"
       /\ pages[tasksToRecur[i].page_id]["Status"] = "Archive"
       /\ pages[id]["Status"] = "Recurring Archive"
       /\ Truthy(pages[id]["Date Recurring"])
       /\ ~DateRecurringArrived(id)

\* No status update is issued while setDateRecurring has work items to
\* settle, and no original is archived while createRecurringTasks has.
StagesInOrder ==
  /\ (pc = "setDateRecurring" \/ ~allSettled(recurringResults))
       => \A id \in PageIds : [page_id |-> id, property |-> "Status"] \notin issued
  /\ (pc = "createRecurringTasks" \/ ~allSettled(creationResults))
       => \A i \in 1..Len(tasksToRecur) :
            pages[tasksToRecur[i].page_id]["Status"] = "Recurring Archive"

\* The exclude list archiveTasks works with names every task whose work item
\* the preceding stage rejected.
ExcludeListComplete ==
  pc = "archiveTasks" =>
    IF recur
      THEN \A i \in 1..Len(recurringTasks) :
             recurringResults[i].status = "rejected"
               => Includes(excludeRejectedList, recurringTasks[i].page_id)
      ELSE \A i \in 1..Len(tasksToRecur) :
             creationResults[i].status = "rejected"
               => Includes(excludeRejectedList, tasksToRecur[i].page_id)

\* C16: no archival status update is issued before every work item of
\* setDateRecurring has settled, no original is archived before every
\* creation has settled, and so the exclude list of archiveTasks holds every
\* task that failed the preceding stage.
C16_StageOrdering == StagesInOrder /\ ExcludeListComplete

\* The number of results of archiveTasks with a status.
ArchiveCount(status) ==
  Cardinality({j \in 1..Len(archiveResults) : archiveResults[j].status = status})

\* C17: a task whose status update in archiveTasks failed keeps the status
\* it had (the completed status in pass one, Recurring Archive in pass two),
\* has an ArchiveFailed card (unless the card's own remote calls threw), and
\* is counted in failedToArchive and not in archivedTasks.
C17_ArchiveFailure ==
  /\ \A j \in 1..Len(archiveResults) :
       LET task == tasksToArchive[j]
       IN  archiveResults[j].status = "rejected"
           => /\ archiveResults[j].name = "ArchiveFailed"
              /\ archiveResults[j].pageId = task.page_id
              /\ pages[task.page_id]["Status"] =
                   (IF recur THEN completedTaskStatus ELSE "Recurring Archive")
              /\ \/ HasCard(task, "ArchiveFailed")
                 \/ ErrorCard(task.page_id, task.name, "ArchiveFailed") \in cardErrors
  /\ (pc \in {"handleRecurringTasks", "createRecurringTasks"}
        \/ (pc \in {"done", "critical"} /\ recur))
       => /\ processedTaskStats.archiveFailures = ArchiveCount("rejected")
          /\ processedTaskStats.archivedTasks = ArchiveCount("fulfilled")
  /\ (pc = "done" /\ ~recur)
       => /\ tasksToRecurStats.archiveFailures = ArchiveCount("rejected")
          /\ tasksToRecurStats.archivedTasks = ArchiveCount("fulfilled")
          /\ summary[1].archiveFailures =
               processedTaskStats.archiveFailures + ArchiveCount("rejected")

\* C17's case: a run has ended in which pass two could not archive an
\* original; the task is in Recurring Archive, has its card and is counted
\* as an archive failure.
C17_Witness ==
  /\ pc = "done"
  /\ ~recur
  /\ tasksToRecurStats.archiveFailures = 1
  /\ \E j \in 1..Len(archiveResults) :
       /\ archiveResults[j].status = "rejected"
       /\ HasCard(tasksToArchive[j], "ArchiveFailed")
       /\ pages[tasksToArchive[j].page_id]["Status"] = "Recurring Archive"

\* The work item of the task a card is about has been rejected by the stage
\* under way with the stage's own error.
RejectedByStage(card, stage, results) ==
  \E i \in 1..Len(results) :
    /\ results[i].status = "rejected"
    /\ results[i].pageId = card.Name.taskId
    /\ results[i].name = StageErrorType(stage)

\* C18: a createErrorCard whose remote calls throw raises nothing: the step
\* leaves the stage under way, the work item is rejected with the stage's
\* own error, every stage that has moved on has settled all its work items,
\* and a run ends as a critical error only out of the two queries' steps.
C18_CardFailureNotFatal ==
  [][
      /\ \A card \in cardErrors' \ cardErrors :
          /\ pc' = pc
          /\ pc \in {"setDateRecurring", "archiveTasks", "createRecurringTasks"}
          /\ RejectedByStage(card, pc,
               CASE pc = "setDateRecurring"     -> recurringResults'
                 [] pc = "archiveTasks"         -> archiveResults'
                 [] pc = "createRecurringTasks" -> creationResults')
      /\ pc' = "critical" => pc \in {"idle", "handleRecurringTasks"}
      /\ EachItemSettled']_vars

\* C18's case: a run has ended with its summary although the creation of an
\* InvalidRecurring card threw in pass one.
C18_Witness ==
  /\ pc = "done"
  /\ Len(summary) = 1
  /\ \E i \in 1..Len(recurringTasks) :
       /\ recurringResults[i].name = "InvalidRecurring"
       /\ ErrorCard(recurringTasks[i].page_id, recurringTasks[i].name,
                    "InvalidRecurring") \in cardErrors
       /\ ~HasCard(recurringTasks[i], "InvalidRecurring")

\* The query for the completed tasks fails in this step, or processTasks
\* throws on a completed task without Date Completed.
ProcessDoneTasksThrows ==
  /\ pc = "idle"
  /\ pc' # "idle"
  /\ \/ faults' # faults
     \/ \E id \in DOMAIN pages :
          /\ pages[id]["Status"] = completedTaskStatus
          /\ pages[id]["Date Completed"] = Undefined

\* C19: when the query for the completed tasks or processTasks throws in
\* processDoneTasks, the run is next at the coordinator's catch block with
\* nothing written, handleRecurringTasks not started and no summary; from
\* there the process only ends, without another attempt.
C19_QueryFailureEndsRun ==
  [][
      /\ ProcessDoneTasksThrows
          => /\ pc' = "critical"
             /\ summary' = <<>>
             /\ tasksToRecur' = <<>>
             /\ creationResults' = <<>>
             /\ pages' = pages
             /\ cards' = cards
      /\ pc = "critical"
          => /\ pc' = "idle"
             /\ summary = <<>>
             /\ pages' = pages
             /\ cards' = cards
             /\ faults' = faults]_vars

\* C19's case: the query for the completed tasks has failed while a
\* completed task and a due Recurring Archive task were waiting.
C19_Witness ==
  /\ pc = "critical"
  /\ doneFetched = {}
  /\ \E id, other \in DOMAIN pages :
       /\ pages[id]["Status"] = completedTaskStatus
       /\ Truthy(pages[id]["Date Completed"])
       /\ DueInRecurringArchive(other)

\* C20: the summary of a run that has ended without a critical error gives,
\* as totalCompletedTasks, the number of tasks the run fetched from the
\* completed bucket.
C20_TotalCompletedTasks ==
  (pc = "done" /\ Len(summary) = 1)
    => summary[1].totalCompletedTasks = Cardinality(doneFetched)

\* The page has no recurring spec.
NoSpec(id) == pages[id]["Recurring"] = Undefined

\* C21: the task created from a task without a recurring spec (one that
\* recurs by a manually set Date Recurring) has neither a recurring spec nor
\* a Date Recurring; a task with neither is never in Recurring Archive and
\* no task is ever created from it.
C21_ManualRecurrenceOnce ==
  /\ \A new \in DOMAIN createRequests :
       NoSpec(createRequests[new].oldPageId)
         => /\ NoSpec(new)
            /\ pages[new]["Date Recurring"] = Undefined
  /\ \A id \in DOMAIN pages :
       (NoSpec(id) /\ pages[id]["Date Recurring"] = Undefined)
         => /\ pages[id]["Status"] # "Recurring Archive"
            /\ clones[id] = 0

\* C21's case: a task with a manually set Date Recurring and no spec has
\* recurred, and the task created from it has been completed and archived.
C21_Witness ==
  \E id, new \in DOMAIN pages :
    /\ NoSpec(id)
    /\ Truthy(pages[id]["Date Recurring"])
    /\ clones[id] >= 1
    /\ pages[id]["Status"] = "Archive"
    /\ new # id
    /\ NoSpec(new)
    /\ pages[new]["Date Recurring"] = Undefined
    /\ Truthy(pages[new]["Date Completed"])
    /\ pages[new]["Status"] = "Archive"
    /\ clones[new] = 0

\* The step issues a remote update for the page or creates a task from it.
MutatedInStep(id) ==
  \/ \E property \in PropertyNames :
       /\ [page_id |-> id, property |-> property] \in issued'
       /\ [page_id |-> id, property |-> property] \notin issued
  \/ clones'[id] # clones[id]

\* C22: no step issues an update for a task with status Archive, creates a
\* task from it or changes it; every task a step mutates is in the completed
\* bucket or in Recurring Archive.
C22_ArchiveTerminal ==
  [][
      /\ \A id \in DOMAIN pages :
           pages[id]["Status"] = "Archive"
             => /\ ~MutatedInStep(id)
                /\ pages'[id] = pages[id]
      /\ \A id \in DOMAIN pages :
           MutatedInStep(id)
             => pages[id]["Status"] \in {completedTaskStatus, "Recurring Archive"}
  ]_vars

\* C22's case: a run that updated another task has ended while a task with
\* status Archive, whose Date Recurring had arrived, got no update.
C22_Witness ==
  /\ pc = "done"
  /\ \E id, other \in DOMAIN pages :
       /\ pages[id]["Status"] = "Archive"
       /\ DateRecurringArrived(id)
       /\ \A property \in PropertyNames :
            [page_id |-> id, property |-> property] \notin issued
       /\ [page_id |-> other, property |-> "Status"] \in issued

\* Each result of a list is fulfilled or rejected, and a rejected one
\* carries the id of the task at its place in the batch.
OutcomesNameTasks(results, tasks) ==
  /\ Len(results) = Len(tasks)
  /\ \A i \in 1..Len(results) :
       /\ results[i].status = "rejected" => results[i].pageId = tasks[i].page_id
       /\ results[i].status = "fulfilled" => results[i].page_id = tasks[i].page_id

\* C23: the outcome lists of setDateRecurring, archiveTasks and
\* createRecurringTasks tell for every task of the batch whether it succeeded
\* or failed, and every failure carries the id of the task that failed.
C23_OutcomeLists ==
  /\ OutcomesNameTasks(recurringResults, recurringTasks)
  /\ OutcomesNameTasks(archiveResults, tasksToArchive)
  /\ OutcomesNameTasks(creationResults, tasksToRecur)

\* The wording of the title of each failure kind.
KindWording ==
  {"Recurring format is invalid for task",
   "Failed to create recurring task for task",
   "Failed to archive task"}

\* C24: every error card of the database has the new-recurring label as its
\* Status and a title made of the wording of one of the three failure kinds,
\* the id of a task and that task's name.
C24_ErrorCardShape ==
  \A card \in BagToSet(cards) :
    /\ card.Status = "New Recurring"
    /\ card.Name.text \in KindWording
    /\ card.Name.taskId \in DOMAIN pages
    /\ card.Name.taskName = pages[card.Name.taskId]["Name"]

\* C24's case: the database holds a card of each of the three kinds.
C24_Witness ==
  \A wording \in KindWording :
    \E card \in BagToSet(cards) : card.Name.text = wording

\* C25: a run that ended at the coordinator's catch block, with an error
\* that had propagated out of a stage, ends its process with a failure
\* signal: an exit code other than 0.
C25_FailureSignal ==
  [][(pc = "critical" /\ pc' = "idle") => exitCode' # 0]_vars

\* The number of tasks createRecurringTasks created in the run.
CreatedCount ==
  Cardinality({i \in 1..Len(creationResults) : creationResults[i].status = "fulfilled"})

\* C26: in the summary recurredTasks is the number of tasks the run created,
\* a due task whose creation failed is counted in recurCreationFailures only,
\* and the message says that recurring tasks were created only when one was.
C26_RecurredTasksCount ==
  (pc = "done" /\ Len(summary) = 1)
    => /\ summary[1].recurredTasks = CreatedCount
       /\ summary[1].recurCreationFailures = Len(creationResults) - CreatedCount
       /\ summary[1].message[2] = " Created and archived recurring tasks."
            => CreatedCount > 0

\* The three counters of a pass, added up.
CounterSum(stats, failures) ==
  stats.archivedTasks + stats.archiveFailures + failures

\* C27: in each pass the counters partition the batch: after the first pass
\* archivedTasks + archiveFailures + recurringParseFailures is the number of
\* completed tasks fetched, after the second pass archivedTasks +
\* archiveFailures + recurCreationFailures is the number of due tasks, and
\* every counted failure of the preceding stage was left out of archival.
C27_CountersPartition ==
  /\ pc = "handleRecurringTasks"
       => /\ CounterSum(processedTaskStats,
                        processedTaskStats.recurringParseFailures)
               = Len(processedTasks)
          /\ processedTaskStats.recurringParseFailures
               = Len(processedTasks) - Len(tasksToArchive)
  /\ (pc = "done" /\ ~recur)
       => /\ CounterSum(tasksToRecurStats,
                        tasksToRecurStats.recurCreationFailures)
               = Len(tasksToRecur)
          /\ tasksToRecurStats.recurCreationFailures
               = Len(tasksToRecur) - Len(tasksToArchive)

\* The second pass taken alone: its counters partition the due tasks.
C27_PassTwoPartition ==
  pc = "done"
    => CounterSum(tasksToRecurStats, tasksToRecurStats.recurCreationFailures)
         = Len(tasksToRecur)

\* Work item i of createRecurringTasks created a task in this step.
CreatedInStep(i) ==
  /\ pc = "createRecurringTasks"
  /\ i \in 1..Len(creationResults)
  /\ creationResults[i].status = "pending"
  /\ creationResults'[i].status = "fulfilled"

\* Work item i of setDateRecurring wrote a Date Recurring in this step.
DateWrittenInStep(i) ==
  /\ pc = "setDateRecurring"
  /\ i \in 1..Len(recurringResults)
  /\ recurringResults[i].status = "pending"
  /\ recurringResults'[i].status = "fulfilled"
  /\ pages' # pages

\* C28: the lifecycle repeats. The task created from a task with a recurring
\* spec keeps that spec and has no Date Recurring and no Date Completed, and
\* stays so until it is completed; once it is completed, a later run writes
\* a Date Recurring computed from the task's own completion date and its
\* spec, and a task in 'Recurring Archive' whose Date Recurring has arrived
\* is due for a new task, whether it is itself a created task or not.
C28_LifecycleRepeats ==
  [][
      /\ \A i \in 1..Len(creationResults) :
           CreatedInStep(i) =>
             LET new == creationResults'[i].newPageId
                 old == tasksToRecur[i].page_id
             IN  /\ new \notin DOMAIN pages
                 /\ new \in DOMAIN pages'
                 /\ pages'[new]["Recurring"] = pages[old]["Recurring"]
                 /\ pages'[new]["Date Recurring"] = Undefined
                 /\ pages'[new]["Date Completed"] = Undefined
                 /\ pages'[new]["Status"] = recurTaskStatus
      /\ \A id \in DOMAIN pages :
           pages[id]["Status"] = recurTaskStatus =>
             /\ pages[id]["Date Recurring"] = Undefined
             /\ pages[id]["Date Completed"] = Undefined
             /\ pages'[id]["Recurring"] = pages[id]["Recurring"]
      /\ \A i \in 1..Len(recurringResults) :
           DateWrittenInStep(i) =>
             LET id == recurringTasks[i].page_id
             IN  /\ ValidRecurring(pages[id]["Recurring"])
                 /\ pages'[id]["Date Recurring"] =
                      ComputeDateRecurring(pages[id]["Date Completed"],
                                           pages[id]["Recurring"])
      /\ (pc = "handleRecurringTasks" /\ pc' = "createRecurringTasks") =>
           \A id \in DOMAIN pages :
             (/\ pages[id]["Status"] = "Recurring Archive"
              /\ ValidRecurring(pages[id]["Recurring"])
              /\ DateRecurringArrived(id))
               => \E i \in 1..Len(tasksToRecur') : tasksToRecur'[i].page_id = id
  ]_vars

\* A created task has itself recurred: page 2, created from the only initial
\* task, was completed later than that task, got a Date Recurring from its
\* own completion date and had a task created from it.
C28_Witness ==
  /\ DOMAIN pages = {1, 2, 3}
  /\ clones[1] >= 1
  /\ clones[2] >= 1
  /\ ValidRecurring(pages[2]["Recurring"])
  /\ pages[2]["Recurring"] = pages[1]["Recurring"]
  /\ pages[2]["Date Completed"] # pages[1]["Date Completed"]
  /\ pages[2]["Date Recurring"] =
       ComputeDateRecurring(pages[2]["Date Completed"], pages[2]["Recurring"])
  /\ pages[3]["Recurring"] = pages[2]["Recurring"]
  /\ pages[3]["Date Recurring"] = Undefined
  /\ pages[3]["Status"] = recurTaskStatus

\* The last day of the calendar.
LastDay == Days[Len(Days)]

\* Task id is in the completed bucket with its Date Completed set, a
\* recurring spec the program parses and no Date Recurring yet, and the
\* date its spec gives arrives within the calendar.
CompletedRecurring(id) ==
  /\ id \in DOMAIN pages
  /\ pages[id]["Status"] = completedTaskStatus
  /\ Truthy(pages[id]["Date Completed"])
  /\ ValidRecurring(pages[id]["Recurring"])
  /\ pages[id]["Date Recurring"] = Undefined
  /\ DateNumber(parseISO(ComputeDateRecurring(pages[id]["Date Completed"],
                                              pages[id]["Recurring"])))
       <= DateNumber(LastDay)

\* Every started run ends: its awaited calls settle and its process exits.
RunsEnd == []<>(pc = "idle")

\* C29: under repeated runs that each end, in which at most one remote call
\* ever fails and the date keeps advancing, the initial task, once completed
\* with a valid recurring spec, eventually reaches 'Archive': it stays
\* forever neither in the completed bucket nor in 'Recurring Archive'.
C29_EventuallyArchived ==
  (RunsEnd /\ [](faults <= 1))
    => (CompletedRecurring(1) ~> pages[1]["Status"] = "Archive")

\* Task id is in the completed bucket with its Date Completed set and
\* neither a recurring spec nor a Date Recurring.
CompletedNonRecurring(id) ==
  /\ id \in DOMAIN pages
  /\ pages[id]["Status"] = completedTaskStatus
  /\ Truthy(pages[id]["Date Completed"])
  /\ ~Truthy(pages[id]["Recurring"])
  /\ ~Truthy(pages[id]["Date Recurring"])

\* The part of C29 about non-recurring tasks: under repeated runs that each
\* end, the initial task, once completed without a recurring spec and
\* without a Date Recurring, eventually reaches 'Archive'.
C29_NonRecurringArchived ==
  RunsEnd => (CompletedNonRecurring(1) ~> pages[1]["Status"] = "Archive")
=============================================================================
